---- MODULE Spec2Model ----
(***************************************************************************)
(* State-machine model of koishi-plugin-w-subscribe (src/src/index.ts):    *)
(* the rule registry of SubscribeService, the subscription commands        *)
(* (subscribe.add / modify / remove / query), the message middleware that  *)
(* fans an inbound guild message out to notifications, and                 *)
(* subscribe.check.                                                        *)
(*                                                                         *)
(* Strings that the code inspects character by character (labels, names)   *)
(* are sequences of one-character strings.                                 *)
(***************************************************************************)
EXTENDS Integers, Sequences, FiniteSets, TLC

\* ------------------------------------------------------------------ bounds
MaxHandles == 2     \* rule() calls over a run
MaxSubs    == 2     \* subscription ids allocated over a run
MaxEvents  == 2     \* inbound messages over a run

\* ------------------------------------------------------------ input domains
Platform == "p"
Kinds    == {"zero", "one"}
UserIds  == {"alice", "bob", "carol"}
GuildIds == {"g"}
NoGuild  == "none"                       \* session.guildId of a private message
Contents == {"hi", "yo"}

Uid(platform, userId)  == <<platform, userId>>      \* session.uid
Gid(platform, guildId) == <<platform, guildId>>     \* session.gid

Callers == {Uid(Platform, "alice"), Uid(Platform, "carol")}      \* issue the subscription commands
Checkers == {Uid(Platform, "alice"), Uid(Platform, "bob")}       \* issue subscribe.check

NoName == <<>>                           \* option -n absent
Names  == {NoName, <<"a">>, <<"#", "a">>}
Labels == {<<"a">>, <<"#", "1">>, <<"#", "2">>, <<"#", "a">>}

NoText      == ""                        \* option -c absent
ConfigTexts == {"hi", "yo", "::"}

\* ------------------------------------------------------------------- state
VARIABLES
    doWrite,        \* SubscribeService.Config.doWrite
    rules,          \* SubscribeService.rules: sequence of [kind, def]
    handles,        \* the handles returned by rule(), in call order
    subs,           \* table w-subscribe-subscription
    nextSubId,      \* its auto-increment counter
    msgs,           \* table w-subscribe-message
    nextMsgId,      \* its auto-increment counter
    mw,             \* the middleware invocation in flight
    events,         \* inbound messages received so far
    chk,            \* the subscribe.check invocation in flight
    reply           \* outcome of the last finished command

vars == <<doWrite, rules, handles, subs, nextSubId, msgs, nextMsgId, mw, events, chk, reply>>

\* --------------------------------------------------------------- registry
withKind(kind, rule) == rule.kind = kind

RuleIndexes(kind) == {i \in 1..Len(rules) : withKind(kind, rules[i])}

\* this.rules.some(withKind(str))
isKind(str) == RuleIndexes(str) # {}

\* this.rules.findIndex(withKind(kind)), 1-based; 0 when absent
findIndex(kind) ==
    IF RuleIndexes(kind) = {} THEN 0
    ELSE CHOOSE i \in RuleIndexes(kind) : \A j \in RuleIndexes(kind) : i <= j

\* this.rules.splice(index, 1)
splice(seq, index) == [i \in 1..(Len(seq) - 1) |-> IF i < index THEN seq[i] ELSE seq[i + 1]]

\* The closure returned by rule(): the inert one, or the one that looks the kind up again.
DisposedRules(h) ==
    IF handles[h].inert THEN rules
    ELSE IF findIndex(handles[h].kind) > 0
         THEN splice(rules, findIndex(handles[h].kind))
         ELSE rules

\* rule() without the duplicate-kind guard
RuleAlwaysPushes(kind) ==
    /\ rules' = Append(rules, [kind |-> kind, def |-> Len(handles) + 1])
    /\ handles' = Append(handles, [kind |-> kind, inert |-> FALSE, disposed |-> FALSE])

\* rule(kind, rule): def names the definition object passed in this call
RuleEffect(kind) ==
    IF isKind(kind)
    THEN /\ rules' = rules
         /\ handles' = Append(handles, [kind |-> kind, inert |-> TRUE, disposed |-> FALSE])
    ELSE /\ rules' = Append(rules, [kind |-> kind, def |-> Len(handles) + 1])
         /\ handles' = Append(handles, [kind |-> kind, inert |-> FALSE, disposed |-> FALSE])

Rule(kind) ==
    /\ Len(handles) < MaxHandles
    /\ RuleEffect(kind)
    /\ UNCHANGED <<doWrite, subs, nextSubId, msgs, nextMsgId, mw, events, chk, reply>>

Dispose(h) ==
    /\ h \in 1..Len(handles)
    /\ rules' = DisposedRules(h)
    /\ handles' = [handles EXCEPT ![h].disposed = TRUE]
    /\ UNCHANGED <<doWrite, subs, nextSubId, msgs, nextMsgId, mw, events, chk, reply>>

\* ------------------------------------------------- subscription commands
Digits == {"0", "1", "2", "3", "4", "5", "6", "7", "8", "9"}

DigitVal(c) ==
    CASE c = "0" -> 0 [] c = "1" -> 1 [] c = "2" -> 2 [] c = "3" -> 3 [] c = "4" -> 4
      [] c = "5" -> 5 [] c = "6" -> 6 [] c = "7" -> 7 [] c = "8" -> 8 [] c = "9" -> 9

NaN == -1                                \* ids are unsigned, so -1 is free to stand for NaN

RECURSIVE Decimal(_)
Decimal(s) ==
    IF s = <<>> THEN 0
    ELSE 10 * Decimal(SubSeq(s, 1, Len(s) - 1)) + DigitVal(s[Len(s)])

\* Number(str) on the label alphabet: "" is 0, a digit string its value, anything else NaN
Number(s) == IF \A i \in 1..Len(s) : s[i] \in Digits THEN Decimal(s) ELSE NaN

\* getSubscriptionQuery: tag "throw" is the SessionError for an id that is not a number
getSubscriptionQuery(label, uid) ==
    IF label[1] = "#"
    THEN LET id == Number(Tail(label))
         IN  IF id = NaN
             THEN [tag |-> "throw", id |-> 0, uid |-> uid, name |-> NoName]
             ELSE [tag |-> "id", id |-> id, uid |-> uid, name |-> NoName]
    ELSE [tag |-> "name", id |-> 0, uid |-> uid, name |-> label]

\* ctx.database.get('w-subscribe-subscription', query)
getSubscriptions(query) ==
    {s \in subs : IF query.tag = "id" THEN s.id = query.id
                  ELSE s.uid = query.uid /\ s.name = query.name}

\* first element of a result set, which the store returns in id order
First(rows) == CHOOSE r \in rows : \A o \in rows : r.id <= o.id

NoSub == [id |-> 0, name |-> NoName, uid |-> <<>>, kind |-> "", config |-> ""]

\* getSubscription without the ownership test
getSubscriptionAnyOwner(label, uid) ==
    LET query == getSubscriptionQuery(label, uid)
        rows  == getSubscriptions(query)
    IN  IF query.tag = "throw" THEN [out |-> "InvalidLabel", sub |-> NoSub]
        ELSE IF rows = {} THEN [out |-> "TypeError", sub |-> NoSub]
        ELSE [out |-> "ok", sub |-> First(rows)]

\* getSubscription: with no row, subscription.uid is read off undefined (a TypeError)
\* before the not-found test is reached
getSubscription(label, uid) ==
    LET query == getSubscriptionQuery(label, uid)
        rows  == getSubscriptions(query)
    IN  IF query.tag = "throw" THEN [out |-> "InvalidLabel", sub |-> NoSub]
        ELSE IF rows = {} THEN [out |-> "TypeError", sub |-> NoSub]
        ELSE IF First(rows).uid # uid THEN [out |-> "NotOwner", sub |-> NoSub]
        ELSE IF rows = {} THEN [out |-> "SubscriptionNotFound", sub |-> NoSub]
        ELSE [out |-> "ok", sub |-> First(rows)]

\* loadConfig / yaml.load + rule.schema: "::" stands for a text the parser or schema rejects
loadConfig(configText) ==
    IF configText = "::" THEN [ok |-> FALSE, config |-> ""]
    ELSE [ok |-> TRUE, config |-> configText]

Said(cmd, out) == [cmd |-> cmd, out |-> out, shown |-> {}, removed |-> 0]

\* outcome of subscribe.add; every throw inside the try block is caught and reported
AddOut(uid, name, kind, configYaml) ==
    IF ~isKind(kind) THEN "UnknownRuleKind"
    ELSE IF ~loadConfig(configYaml).ok THEN "ConfigError"
    ELSE IF name # NoName /\ name[1] = "#" THEN "ReservedPrefix"
    ELSE IF name # NoName /\ getSubscription(name, uid).out # "ok"
         THEN getSubscription(name, uid).out
    ELSE IF name # NoName THEN "DuplicateName"
    ELSE "ok"

Add(uid, name, kind, configYaml) ==
    LET out == AddOut(uid, name, kind, configYaml)
    IN  /\ out = "ok" => nextSubId <= MaxSubs
        /\ IF out = "ok"
           THEN /\ subs' = subs \cup {[id |-> nextSubId, name |-> name, uid |-> uid,
                                       kind |-> kind, config |-> loadConfig(configYaml).config]}
                /\ nextSubId' = nextSubId + 1
           ELSE UNCHANGED <<subs, nextSubId>>
        /\ reply' = Said("add", out)
        /\ UNCHANGED <<doWrite, rules, handles, msgs, nextMsgId, mw, events, chk>>

\* subscribe.modify without the registered-kind test
ModifyOutAnyKind(uid, label, newName, newConfigText) ==
    LET got == getSubscription(label, uid)
    IN  IF got.out # "ok" THEN got.out
        ELSE IF newConfigText # NoText /\ ~loadConfig(newConfigText).ok THEN "ConfigError"
        ELSE IF newName = NoName /\ newConfigText = NoText THEN "NoChange"
        ELSE "ok"

\* outcome of subscribe.modify
ModifyOut(uid, label, newName, newConfigText) ==
    LET got == getSubscription(label, uid)
    IN  IF got.out # "ok" THEN got.out
        ELSE IF ~isKind(got.sub.kind) THEN "CorruptSubscription"
        ELSE IF newConfigText # NoText /\ ~loadConfig(newConfigText).ok THEN "ConfigError"
        ELSE IF newName = NoName /\ newConfigText = NoText THEN "NoChange"
        ELSE "ok"

\* the update applied to every row of the owner instead of the row with the resolved id
ModifiedRowsByOwner(sub, newName, newConfigText) ==
    {IF s.uid = sub.uid
     THEN [s EXCEPT !.name = IF newName # NoName THEN newName ELSE @,
                    !.config = IF newConfigText # NoText
                               THEN loadConfig(newConfigText).config ELSE @]
     ELSE s : s \in subs}

\* ctx.database.set('w-subscribe-subscription', id, update)
ModifiedRows(sub, newName, newConfigText) ==
    {IF s.id = sub.id
     THEN [s EXCEPT !.name = IF newName # NoName THEN newName ELSE @,
                    !.config = IF newConfigText # NoText
                               THEN loadConfig(newConfigText).config ELSE @]
     ELSE s : s \in subs}

Modify(uid, label, newName, newConfigText) ==
    LET out == ModifyOut(uid, label, newName, newConfigText)
    IN  /\ subs' = IF out = "ok"
                   THEN ModifiedRows(getSubscription(label, uid).sub, newName, newConfigText)
                   ELSE subs
        /\ reply' = Said("modify", out)
        /\ UNCHANGED <<doWrite, rules, handles, nextSubId, msgs, nextMsgId, mw, events, chk>>

\* a remove that also deletes the notifications the subscription gave rise to
RemoveCascading(uid, label) ==
    LET got == getSubscription(label, uid)
    IN  /\ subs' = IF got.out = "ok" THEN {s \in subs : s.id # got.sub.id} ELSE subs
        /\ msgs' = IF got.out = "ok"
                   THEN {m \in msgs : ~(m.subscriber = got.sub.uid /\ m.kind = got.sub.kind)}
                   ELSE msgs
        /\ reply' = Said("remove", got.out)
        /\ UNCHANGED <<doWrite, rules, handles, nextSubId, nextMsgId, mw, events, chk>>

\* subscribe.remove
Remove(uid, label) ==
    LET got == getSubscription(label, uid)
    IN  /\ subs' = IF got.out = "ok" THEN {s \in subs : s.id # got.sub.id} ELSE subs
        /\ reply' = Said("remove", got.out)
        /\ UNCHANGED <<doWrite, rules, handles, nextSubId, msgs, nextMsgId, mw, events, chk>>

\* subscribe.query: the reply shows the resolved row
Query(uid, label) ==
    LET got == getSubscription(label, uid)
    IN  /\ reply' = [cmd |-> "query", out |-> got.out, shown |-> IF got.out = "ok" THEN {got.sub} ELSE {},
                      removed |-> 0]
        /\ UNCHANGED <<doWrite, rules, handles, subs, nextSubId, msgs, nextMsgId, mw, events, chk>>

\* subscribe.list-rules: the reply shows the registered kinds in registry order
ListRules ==
    /\ reply' = [cmd |-> "list-rules", out |-> "ok",
                 shown |-> {<<i, rules[i].kind>> : i \in 1..Len(rules)}, removed |-> 0]
    /\ UNCHANGED <<doWrite, rules, handles, subs, nextSubId, msgs, nextMsgId, mw, events, chk>>

\* ------------------------------------------------------------ middleware
\* session.bot.getGuildMemberList(guildId).data, as user ids
getGuildMemberList(guildId) == IF guildId = "g" THEN {"alice", "bob"} ELSE {}

\* rule.filter(session, config, subscriber) of the rule registered for the kind:
\* the rule of "zero" accepts every message, the rule of "one" those whose content is the config
Filter(kind, content, config, subscriber) ==
    IF kind = "zero" THEN TRUE ELSE config = content

MwIdle == [pc |-> "idle", sender |-> <<>>, guildId |-> NoGuild, content |-> "",
           timestamp |-> 0, memberUids |-> {}, subscriptions |-> {}, issued |-> {},
           pending |-> {}, nexts |-> 0]

\* a middleware without the guild test
MwReceiveAnyScope(userId, guildId, content) ==
    /\ mw.pc \in {"idle", "returned", "done"}
    /\ events < MaxEvents
    /\ events' = events + 1
    /\ mw' = [MwIdle EXCEPT !.pc = IF ~doWrite THEN "returned" ELSE "members",
                            !.sender = Uid(Platform, userId),
                            !.guildId = guildId,
                            !.content = content,
                            !.timestamp = events + 1]
    /\ UNCHANGED <<doWrite, rules, handles, subs, nextSubId, msgs, nextMsgId, chk, reply>>

\* an inbound message reaches the middleware: the two early returns, or the call of
\* getGuildMemberList
MwReceive(userId, guildId, content) ==
    /\ mw.pc \in {"idle", "returned", "done"}
    /\ events < MaxEvents
    /\ events' = events + 1
    /\ mw' = [MwIdle EXCEPT !.pc = IF ~doWrite \/ guildId = NoGuild THEN "returned" ELSE "members",
                            !.sender = Uid(Platform, userId),
                            !.guildId = guildId,
                            !.content = content,
                            !.timestamp = events + 1]
    /\ UNCHANGED <<doWrite, rules, handles, subs, nextSubId, msgs, nextMsgId, chk, reply>>

\* the member list arrives and is mapped to platform-qualified uids
MwMembers ==
    /\ mw.pc = "members"
    /\ mw' = [mw EXCEPT !.pc = "fetch",
                        !.memberUids = {Uid(Platform, m) : m \in getGuildMemberList(mw.guildId)}]
    /\ UNCHANGED <<doWrite, rules, handles, subs, nextSubId, msgs, nextMsgId, events, chk, reply>>

\* the store answers get('w-subscribe-subscription', {uid: {$in: memberUids}})
MwFetch ==
    /\ mw.pc = "fetch"
    /\ mw' = [mw EXCEPT !.pc = "fanout",
                        !.subscriptions = {s \in subs : s.uid \in mw.memberUids}]
    /\ UNCHANGED <<doWrite, rules, handles, subs, nextSubId, msgs, nextMsgId, events, chk, reply>>

\* the fan-out without the rule lookup: every fetched subscription is filtered
ServedIgnoringRegistry ==
    {s.id : s \in {t \in mw.subscriptions :
                       Filter(t.kind, mw.content, t.config, [uid |-> t.uid])}}

\* the ids of the fetched subscriptions for which the map callback issues a create
Served ==
    {s.id : s \in {t \in mw.subscriptions :
                       isKind(t.kind) /\ Filter(t.kind, mw.content, t.config, [uid |-> t.uid])}}

\* the synchronous map over the fetched subscriptions: rule lookup, filter, create issued;
\* issued holds the subscriptions whose callback returned a promise, pending those whose
\* promise has not settled
MwFanOut ==
    /\ mw.pc = "fanout"
    /\ mw' = [mw EXCEPT !.pc = "writes", !.issued = Served, !.pending = Served]
    /\ UNCHANGED <<doWrite, rules, handles, subs, nextSubId, msgs, nextMsgId, events, chk, reply>>

\* the row of one create call
Notification(id, s) ==
    [id |-> id, subscriber |-> s.uid, sender |-> mw.sender, guild |-> Gid(Platform, mw.guildId),
     kind |-> s.kind, content |-> mw.content, timestamp |-> mw.timestamp, hasRead |-> FALSE]

\* the store completes one of the issued creates
MwCreate(sid) ==
    /\ mw.pc = "writes"
    /\ sid \in mw.pending
    /\ msgs' = msgs \cup {Notification(nextMsgId, CHOOSE s \in mw.subscriptions : s.id = sid)}
    /\ nextMsgId' = nextMsgId + 1
    /\ mw' = [mw EXCEPT !.pending = @ \ {sid}]
    /\ UNCHANGED <<doWrite, rules, handles, subs, nextSubId, events, chk, reply>>

\* a middleware that calls next without awaiting the writes it issued
MwNextWithoutWaiting ==
    /\ mw.pc = "writes"
    /\ mw' = [mw EXCEPT !.pc = "done", !.nexts = @ + 1]
    /\ UNCHANGED <<doWrite, rules, handles, subs, nextSubId, msgs, nextMsgId, events, chk, reply>>

\* Promise.all has settled: return next()
MwNext ==
    /\ mw.pc = "writes"
    /\ mw.pending = {}
    /\ mw' = [mw EXCEPT !.pc = "done", !.nexts = @ + 1]
    /\ UNCHANGED <<doWrite, rules, handles, subs, nextSubId, msgs, nextMsgId, events, chk, reply>>

\* -------------------------------------------------------- subscribe.check
NoKind == ""                             \* argument [kind] absent

\* the locals of one subscribe.check call that live across its awaits
ChkIdle == [pc |-> "idle", uid |-> <<>>, kind |-> NoKind, guildId |-> NoGuild,
            clear |-> FALSE, read |-> FALSE, global |-> FALSE, messages |-> {}]

\* get('w-subscribe-message', {subscriber, kind, guild, hasRead})
CheckQuery(uid, kind, guildId, clear, read, global) ==
    {m \in msgs :
        /\ m.subscriber = uid
        /\ kind # NoKind => m.kind = kind
        /\ (guildId # NoGuild /\ ~global) => m.guild = Gid(Platform, guildId)
        /\ ~(clear \/ read) => m.hasRead = FALSE}

\* the read of subscribe.check, and its early return when nothing matches
CheckRead(uid, kind, guildId, clear, read, global) ==
    LET messages == CheckQuery(uid, kind, guildId, clear, read, global)
    IN  /\ chk.pc = "idle"
        /\ IF messages = {}
           THEN /\ reply' = Said("check", "NoMessages")
                /\ chk' = chk
           ELSE /\ chk' = [pc |-> "write", uid |-> uid, kind |-> kind, guildId |-> guildId,
                           clear |-> clear, read |-> read, global |-> global,
                           messages |-> messages]
                /\ reply' = reply
        /\ UNCHANGED <<doWrite, rules, handles, subs, nextSubId, msgs, nextMsgId, mw, events>>

CheckIds == {m.id : m \in chk.messages}

\* outcome of the render step: rule.render is read off undefined when the kind of a
\* message has no registered rule
RenderOut == IF \E m \in chk.messages : ~isKind(m.kind) THEN "TypeError" ELSE "ok"

\* a clear that removes only the rows that were already read
BulkWrittenClearsRead ==
    IF chk.clear
    THEN {m \in msgs : ~(m.id \in CheckIds /\ m.hasRead)}
    ELSE {IF m.id \in CheckIds THEN [m EXCEPT !.hasRead = TRUE] ELSE m : m \in msgs}

\* a bulk action in which the read option wins over the clear option
BulkWrittenReadFirst ==
    IF chk.clear /\ ~chk.read
    THEN {m \in msgs : m.id \notin CheckIds}
    ELSE {IF m.id \in CheckIds THEN [m EXCEPT !.hasRead = TRUE] ELSE m : m \in msgs}

\* the message store after remove({id: {$in: ids}}) when options.clear is set, and
\* after set({id: {$in: ids}}, {hasRead: true}) otherwise
BulkWritten ==
    IF chk.clear
    THEN {m \in msgs : m.id \notin CheckIds}
    ELSE {IF m.id \in CheckIds THEN [m EXCEPT !.hasRead = TRUE] ELSE m : m \in msgs}

\* the bulk remove or set over the ids read, then the render of the rows read
CheckWrite ==
    /\ chk.pc = "write"
    /\ msgs' = BulkWritten
    /\ reply' = [cmd |-> "check", out |-> RenderOut,
                 shown |-> IF RenderOut = "ok" THEN chk.messages ELSE {},
                 removed |-> IF chk.clear /\ RenderOut = "ok"
                             THEN Cardinality({m \in msgs : m.id \in CheckIds}) ELSE 0]
    /\ chk' = ChkIdle
    /\ UNCHANGED <<doWrite, rules, handles, subs, nextSubId, nextMsgId, mw, events>>

\* ------------------------------------------------------- specifications
\* the state after construction, or a state reached from it by rule() and unnamed
\* subscribe.add calls
InitFrom(doWrites, registered, returned, stored) ==
    /\ doWrite \in doWrites
    /\ rules = registered
    /\ handles = returned
    /\ subs = stored
    /\ nextSubId = Cardinality(stored) + 1
    /\ msgs = {}
    /\ nextMsgId = 1
    /\ mw = MwIdle
    /\ events = 0
    /\ chk = ChkIdle
    /\ reply = Said("none", "none")

Init == InitFrom(BOOLEAN, <<>>, <<>>, {})

Registry ==
    \/ \E kind \in Kinds : Rule(kind)
    \/ \E h \in 1..MaxHandles : Dispose(h)

Manage ==
    \/ \E uid \in Callers, name \in Names, kind \in Kinds, text \in ConfigTexts :
            Add(uid, name, kind, text)
    \/ \E uid \in Callers, label \in Labels, name \in Names, text \in ConfigTexts \cup {NoText} :
            Modify(uid, label, name, text)
    \/ \E uid \in Callers, label \in Labels : Remove(uid, label)
    \/ \E uid \in Callers, label \in Labels : Query(uid, label)

Middleware ==
    \/ \E guildId \in GuildIds \cup {NoGuild}, content \in Contents :
            MwReceive("bob", guildId, content)
    \/ MwMembers
    \/ MwFetch
    \/ MwFanOut
    \/ \E sid \in 1..MaxSubs : MwCreate(sid)
    \/ MwNext

Check ==
    \/ \E uid \in Callers \cup Checkers, kind \in Kinds \cup {NoKind}, guildId \in GuildIds \cup {NoGuild},
          clear \in BOOLEAN, read \in BOOLEAN, global \in BOOLEAN :
            CheckRead(uid, kind, guildId, clear, read, global)
    \/ CheckWrite

Next == Registry \/ Manage \/ ListRules \/ Middleware \/ Check

Spec == Init /\ [][Next]_vars

\* the registry and the command that lists it
NextRegistry == Registry \/ ListRules

SpecRegistry == Init /\ [][NextRegistry]_vars

\* the registry after rule("zero") and rule("one")
BothRules == <<[kind |-> "zero", def |-> 1], [kind |-> "one", def |-> 2]>>

BothHandles == <<[kind |-> "zero", inert |-> FALSE, disposed |-> FALSE],
                 [kind |-> "one", inert |-> FALSE, disposed |-> FALSE]>>

Unregister == \E h \in 1..Len(BothHandles) : Dispose(h)

\* the subscription commands after rule("zero"), whose handle may be disposed
InitManage ==
    InitFrom({TRUE}, <<[kind |-> "zero", def |-> 1]>>,
             <<[kind |-> "zero", inert |-> FALSE, disposed |-> FALSE]>>, {})

NextManage == Dispose(1) \/ Manage

SpecManage == InitManage /\ [][NextManage]_vars

\* unnamed subscriptions are added while messages are dispatched and kinds are disposed
Subscribe ==
    \E uid \in Callers, kind \in Kinds, text \in ConfigTexts : Add(uid, NoName, kind, text)

InitDispatch == InitFrom(BOOLEAN, BothRules, BothHandles, {})

NextDispatch == Unregister \/ Subscribe \/ Middleware

SpecDispatch == InitDispatch /\ [][NextDispatch]_vars

\* dispatch and subscribe.check together, after one unnamed subscribe.add each by alice
\* and by bob
InitNotify ==
    InitFrom({TRUE}, BothRules, BothHandles,
             {[id |-> 1, name |-> NoName, uid |-> Uid(Platform, "alice"), kind |-> "zero",
               config |-> "hi"],
              [id |-> 2, name |-> NoName, uid |-> Uid(Platform, "bob"), kind |-> "one",
               config |-> "hi"]})

CheckBy ==
    \/ \E uid \in Checkers, kind \in Kinds \cup {NoKind}, guildId \in GuildIds \cup {NoGuild},
          clear \in BOOLEAN, read \in BOOLEAN, global \in BOOLEAN :
            CheckRead(uid, kind, guildId, clear, read, global)
    \/ CheckWrite

NextNotify == Unregister \/ Middleware \/ CheckBy

SpecNotify == InitNotify /\ [][NextNotify]_vars

\* every operation next to stored notifications: one kind registered and one member
\* subscribed at the start, a second kind and a second subscription to come
InitLifecycle ==
    InitFrom({TRUE}, <<[kind |-> "one", def |-> 1]>>,
             <<[kind |-> "one", inert |-> FALSE, disposed |-> FALSE]>>,
             {[id |-> 1, name |-> NoName, uid |-> Uid(Platform, "bob"),
               kind |-> "one", config |-> "hi"]})

SubIds == {<<"#", "1">>, <<"#", "2">>}

Register == Rule("zero")

Edit ==
    \/ Add(Uid(Platform, "alice"), NoName, "zero", "hi")
    \/ \E label \in SubIds : Modify(Uid(Platform, "bob"), label, NoName, "yo")
    \/ \E label \in SubIds : Remove(Uid(Platform, "bob"), label)

Post ==
    \/ MwReceive("bob", "g", "hi")
    \/ MwMembers
    \/ MwFetch
    \/ MwFanOut
    \/ \E sid \in 1..MaxSubs : MwCreate(sid)
    \/ MwNext

CheckAll ==
    \/ \E uid \in Checkers, clear \in BOOLEAN, read \in BOOLEAN :
            CheckRead(uid, NoKind, NoGuild, clear, read, FALSE)
    \/ CheckWrite

NextLifecycle == Register \/ Unregister \/ Edit \/ Post \/ CheckAll

SpecLifecycle == InitLifecycle /\ [][NextLifecycle]_vars

\* ----------------------------------------------------------------- claims
AllUids == {Uid(Platform, u) : u \in UserIds}

\* the notifications carrying the timestamp of the message being dispatched
EventRows == {m \in msgs : m.timestamp = mw.timestamp}

C1_Fetched ==
    (mw.pc = "fetch" /\ mw'.pc = "fanout") =>
        mw'.subscriptions =
            {s \in subs : \E m \in getGuildMemberList(mw.guildId) : s.uid = Uid(Platform, m)}

C1_Issued ==
    (mw.pc = "fanout" /\ mw'.pc = "writes") =>
        \A s \in mw.subscriptions :
            s.id \in mw'.issued <=>
                /\ \E i \in 1..Len(rules) : rules[i].kind = s.kind
                /\ Filter(s.kind, mw.content, s.config, [uid |-> s.uid])

C1_Created ==
    mw.pc = "done" =>
        /\ doWrite /\ mw.guildId # NoGuild
        /\ \A uid \in AllUids, kind \in Kinds :
              Cardinality({m \in EventRows : m.subscriber = uid /\ m.kind = kind})
                = Cardinality({s \in mw.subscriptions :
                                  s.id \in mw.issued /\ s.uid = uid /\ s.kind = kind})
        /\ \A m \in EventRows :
              /\ m.subscriber \in AllUids /\ m.kind \in Kinds
              /\ m.sender = mw.sender
              /\ m.guild = Gid(Platform, mw.guildId)
              /\ m.content = mw.content
              /\ m.hasRead = FALSE

\* C1: a dispatched guild message (doWrite on) creates exactly one notification for every
\* stored subscription of a guild member whose kind is registered when it is looked up and
\* whose filter accepts the message, with the fields of the message and hasRead = FALSE,
\* and no other row
C1_DispatchCreatesExactlyTheMatching ==
    /\ []C1_Created
    /\ [][C1_Fetched /\ C1_Issued]_vars

\* a finished dispatch that served one subscription and skipped a fetched one whose kind
\* is not registered
C1_Witness ==
    /\ mw.pc = "done"
    /\ EventRows # {}
    /\ \E s \in mw.subscriptions : s.id \notin mw.issued /\ ~isKind(s.kind)

\* C2: a named subscribe.add on a registered kind with a valid config inserts exactly one
\* row iff the name has no reserved prefix and the caller holds no subscription of that
\* name; otherwise it fails with ReservedPrefix or DuplicateName and inserts nothing
C2_NamedAddSucceedsIffNameFree ==
    [][reply'.cmd = "add" => \A uid \in Callers, name \in Names \ {NoName}, kind \in Kinds, text \in ConfigTexts :
          (Add(uid, name, kind, text) /\ isKind(kind) /\ loadConfig(text).ok) =>
              IF name[1] # "#" /\ ~(\E s \in subs : s.uid = uid /\ s.name = name)
              THEN /\ reply'.out = "ok"
                   /\ subs' = subs \cup {[id |-> nextSubId, name |-> name, uid |-> uid,
                                          kind |-> kind, config |-> loadConfig(text).config]}
              ELSE /\ reply'.out \in {"ReservedPrefix", "DuplicateName"}
                   /\ subs' = subs]_vars

\* C3: no owner holds two subscriptions of the same non-empty name, and no name starts
\* with the reserved prefix
C3_NamesUniqueAndUnreserved ==
    /\ \A s, t \in subs : (s.id # t.id /\ s.uid = t.uid /\ s.name # NoName) => s.name # t.name
    /\ \A s \in subs : s.name # NoName => s.name[1] # "#"

\* C4: subscribe.check over notifications of which one has an unregistered kind completes
\* without error and returns the rows it read
C4_CheckRendersOrphans ==
    [][(chk.pc = "write" /\ chk'.pc = "idle" /\ \E m \in chk.messages : ~isKind(m.kind)) =>
          reply'.out = "ok" /\ reply'.shown = chk.messages]_vars

\* C5: disposing a handle that was disposed before leaves the registry as it is
C5_SecondDisposeHasNoEffect ==
    [][\A h \in 1..Len(handles) :
          (Dispose(h) /\ handles[h].disposed) => rules' = rules]_vars

C6_AtMostOnePerKind ==
    \A i, j \in 1..Len(rules) : rules[i].kind = rules[j].kind => i = j

\* C6: the registry holds at most one definition per kind; rule() on a registered kind
\* and the disposal of the handle it returns leave the registry unchanged
C6_DuplicateRegistrationIsInert ==
    /\ []C6_AtMostOnePerKind
    /\ [][/\ \A kind \in Kinds : (Rule(kind) /\ isKind(kind)) => rules' = rules
          /\ \A h \in 1..Len(handles) :
                (Dispose(h) /\ handles[h].inert) => rules' = rules]_vars

\* the handle of a rejected registration has been disposed and its kind is still registered
C6_Witness ==
    \E h \in 1..Len(handles) :
        handles[h].inert /\ handles[h].disposed /\ isKind(handles[h].kind)

\* some command of the caller that resolves the label
Resolves(uid, label) ==
    \/ Remove(uid, label)
    \/ Query(uid, label)
    \/ \E name \in Names, text \in ConfigTexts \cup {NoText} : Modify(uid, label, name, text)

\* the label is well formed and matches no stored row
MatchesNoRow(uid, label) ==
    /\ getSubscriptionQuery(label, uid).tag # "throw"
    /\ getSubscriptions(getSubscriptionQuery(label, uid)) = {}

\* C7: resolving a well-formed label that matches no row fails with SubscriptionNotFound
\* and leaves both stores unchanged
C7_MissingRowIsNotFound ==
    [][reply'.cmd \in {"remove", "query", "modify"} =>
          \A uid \in Callers, label \in Labels :
              (MatchesNoRow(uid, label) /\ Resolves(uid, label)) =>
                  reply'.out = "SubscriptionNotFound" /\ subs' = subs /\ msgs' = msgs]_vars

\* the label is '#<id>' of a stored row that the caller does not own
NamesForeignRow(uid, label) ==
    /\ getSubscriptionQuery(label, uid).tag = "id"
    /\ \E s \in subs : s.id = getSubscriptionQuery(label, uid).id /\ s.uid # uid

\* C8: remove, modify and query of a caller never delete, change or show a subscription
\* of another uid; '#<id>' of another user's row fails with NotOwner and changes nothing
C8_OnlyOwnSubscriptions ==
    [][reply'.cmd \in {"remove", "query", "modify"} =>
          /\ (subs' # subs \/ reply'.shown # {}) =>
                \A uid \in Callers, label \in Labels :
                    Resolves(uid, label) =>
                        /\ {s \in subs : s.uid # uid} = {s \in subs' : s.uid # uid}
                        /\ \A s \in reply'.shown : s.uid = uid
          /\ \A uid \in Callers, label \in Labels :
                (NamesForeignRow(uid, label) /\ Resolves(uid, label)) =>
                    reply'.out = "NotOwner" /\ subs' = subs]_vars

\* a caller was refused another user's subscription
C8_Witness == reply.out = "NotOwner" /\ \E s, t \in subs : s.uid # t.uid

\* the label resolves to a row of the caller whose kind is registered
ResolvesToLive(uid, label) ==
    getSubscription(label, uid).out = "ok" /\ isKind(getSubscription(label, uid).sub.kind)

\* C9: subscribe.modify on an owned subscription of a registered kind: with neither option
\* it fails with NoChange and changes nothing; with a name only it changes only the name
\* of the resolved row; id, uid and kind of the row and every other row never change
C9_ModifyFrame ==
    [][reply'.cmd = "modify" =>
          \A uid \in Callers, label \in Labels :
              ResolvesToLive(uid, label) =>
                  \A name \in Names, text \in ConfigTexts \cup {NoText} :
                      LET sub == getSubscription(label, uid).sub
                      IN  Modify(uid, label, name, text) =>
                              /\ (name = NoName /\ text = NoText) =>
                                    reply'.out = "NoChange" /\ subs' = subs
                              /\ (name # NoName /\ text = NoText) =>
                                    /\ reply'.out = "ok"
                                    /\ subs' = (subs \ {sub}) \cup {[sub EXCEPT !.name = name]}
                              /\ \A s \in subs : s.id # sub.id => s \in subs'
                              /\ \E t \in subs' :
                                    t.id = sub.id /\ t.uid = sub.uid /\ t.kind = sub.kind
                              /\ Cardinality(subs') = Cardinality(subs)]_vars

\* an owner holds a renamed subscription beside an unnamed one
C9_Witness ==
    \E s, t \in subs : s.uid = t.uid /\ s.name = <<"a">> /\ t.name = NoName

\* the label resolves to a row of the caller whose kind is not registered
ResolvesToOrphan(uid, label) ==
    getSubscription(label, uid).out = "ok" /\ ~isKind(getSubscription(label, uid).sub.kind)

\* C10 as stated: on a subscription of an unregistered kind a name-only modify renames
\* the row, and a modify with a config fails with CorruptSubscription and changes nothing
C10_OrphanCanBeRenamed ==
    [][reply'.cmd = "modify" =>
          \A uid \in Callers, label \in Labels :
              ResolvesToOrphan(uid, label) =>
                  \A name \in Names, text \in ConfigTexts \cup {NoText} :
                      LET sub == getSubscription(label, uid).sub
                      IN  Modify(uid, label, name, text) =>
                              /\ (name # NoName /\ text = NoText) =>
                                    /\ reply'.out = "ok"
                                    /\ subs' = (subs \ {sub}) \cup {[sub EXCEPT !.name = name]}
                              /\ text # NoText =>
                                    reply'.out = "CorruptSubscription" /\ subs' = subs]_vars

\* C10 amended: on a subscription of an unregistered kind every modify, with a name, a
\* config or both, fails with CorruptSubscription and changes nothing
C10_OrphanCannotBeModified ==
    [][reply'.cmd = "modify" =>
          \A uid \in Callers, label \in Labels :
              ResolvesToOrphan(uid, label) =>
                  \A name \in Names, text \in ConfigTexts \cup {NoText} :
                      Modify(uid, label, name, text) =>
                          reply'.out = "CorruptSubscription" /\ subs' = subs]_vars

\* a modify was refused on a stored subscription whose kind is not registered
C10_Witness ==
    reply.cmd = "modify" /\ reply.out = "CorruptSubscription" /\ \E s \in subs : ~isKind(s.kind)

\* row m belongs to the caller of check call c and passes its kind and guild filter
SameFilter(m, c) ==
    /\ m.subscriber = c.uid
    /\ c.kind # NoKind => m.kind = c.kind
    /\ (c.guildId # NoGuild /\ ~c.global) => m.guild = Gid(Platform, c.guildId)

\* a step that completes the in-flight subscribe.check
Completes == chk.pc = "write" /\ chk'.pc = "idle"

\* a step in which a subscribe.check reads a non-empty set of rows
Reads == chk.pc = "idle" /\ chk'.pc = "write"

\* C11: a check without clear that returns its listing M leaves every row of M read;
\* from then on a check without read and clear lists no read row, and a check of the
\* same user with the read option returns the rows of M that pass its filter, as read
C11_ReadLifecycle ==
    [][/\ (Completes /\ ~chk.clear /\ reply'.out = "ok") =>
            \A m \in reply'.shown : [m EXCEPT !.hasRead = TRUE] \in msgs'
       /\ (Reads /\ ~chk'.read /\ ~chk'.clear) =>
            \A m \in chk'.messages : ~m.hasRead
       /\ (Completes /\ chk.read /\ ~chk.clear /\ reply.out = "ok") =>
            \A m \in reply.shown :
                ([m EXCEPT !.hasRead = TRUE] \in msgs /\ SameFilter(m, chk)) =>
                    /\ reply'.out = "ok"
                    /\ [m EXCEPT !.hasRead = TRUE] \in reply'.shown
       /\ (chk.pc = "idle" /\ chk' = chk /\ reply' # reply) =>
            \A uid \in Checkers, kind \in Kinds \cup {NoKind},
               guildId \in GuildIds \cup {NoGuild}, global \in BOOLEAN :
                CheckRead(uid, kind, guildId, FALSE, TRUE, global) =>
                    ~\E m \in msgs :
                        /\ m.hasRead
                        /\ SameFilter(m, [uid |-> uid, kind |-> kind,
                                          guildId |-> guildId, global |-> global])
      ]_vars

Ids(rows) == {m.id : m \in rows}

\* C12: a check with the clear option, with or without the read option, deletes every
\* row it matched, read or unread, marks no row read and reports the number of matched
\* rows as removed; a check without the clear option deletes no row
C12_ClearTakesPrecedence ==
    [][Completes =>
        IF chk.clear
        THEN /\ Ids(msgs') = Ids(msgs) \ Ids(chk.messages)
             /\ chk.messages \subseteq msgs
             /\ msgs' \subseteq msgs
             /\ reply'.out = "ok" => reply'.removed = Cardinality(chk.messages)
        ELSE Ids(msgs') = Ids(msgs)
      ]_vars

\* a check with the clear option has listed and removed a read row and an unread row
C12_Witness ==
    /\ reply.cmd = "check" /\ reply.out = "ok"
    /\ reply.removed = 2
    /\ Ids(reply.shown) \cap Ids(msgs) = {}
    /\ \E m, n \in reply.shown : m.hasRead /\ ~n.hasRead

\* C13: a stored notification is changed or removed only by the completion of a check
\* of its own subscriber, which either removes it or turns its hasRead from false to
\* true; every other step, and every other field, leaves it as it is
C13_NotificationFrame ==
    [][/\ Cardinality(Ids(msgs')) = Cardinality(msgs')
       /\ \A m \in msgs :
            \/ m \in msgs'
            \/ /\ Completes
               /\ chk.uid = m.subscriber
               /\ \/ m.id \notin Ids(msgs')
                  \/ ~m.hasRead /\ [m EXCEPT !.hasRead = TRUE] \in msgs'
      ]_vars

\* a notification outlives its subscription and the rule of its kind
C13_Witness ==
    /\ reply.cmd = "remove" /\ reply.out = "ok"
    /\ \E m \in msgs :
        /\ ~isKind(m.kind)
        /\ ~\E sub \in subs : sub.uid = m.subscriber /\ sub.kind = m.kind

\* C14: the middleware returns at once on a message without guild scope: it never gets
\* past the guild test, no notification carries the message, and receiving it changes
\* neither the subscriptions, the notifications nor the registry
C14_NoGuildIsNoOp ==
    /\ []((mw.pc # "idle" /\ mw.guildId = NoGuild) =>
            (mw.pc = "returned" /\ EventRows = {}))
    /\ [][(mw'.timestamp # mw.timestamp /\ mw'.guildId = NoGuild) =>
            UNCHANGED <<subs, nextSubId, msgs, nextMsgId, rules, handles>>]_vars

\* a message without guild scope was received while writing is on, a subscription is
\* stored and its rule is registered
C14_Witness ==
    /\ doWrite
    /\ mw.pc = "returned" /\ mw.guildId = NoGuild
    /\ \E sub \in subs : isKind(sub.kind)

\* C15: right after a check with the clear option completes, no row passes its filter,
\* so that the same check repeated by the same user finds nothing to remove
C15_NothingLeftToClear ==
    [][(Completes /\ chk.clear) => ~\E m \in msgs' : SameFilter(m, chk)]_vars

\* C15 (amended): after a check with the clear option completes, the only rows that
\* pass its filter were created after its read; rows enter the store by a dispatch
\* write only; a check with the clear option goes on to its bulk action only with
\* all the rows that pass its filter, of which there is one at least; and a check that
\* returns early answers that there are no messages and leaves the store as it is
C15_ClearIsIdempotent ==
    [][/\ (Completes /\ chk.clear) =>
            \A m \in msgs' : SameFilter(m, chk) => \A r \in chk.messages : m.id > r.id
       /\ ~(Ids(msgs') \subseteq Ids(msgs)) => (mw.pc = "writes" /\ mw'.pending # mw.pending)
       /\ (Reads /\ chk'.clear) =>
            /\ chk'.messages # {}
            /\ chk'.messages = {m \in msgs : SameFilter(m, chk')}
       /\ (chk.pc = "idle" /\ chk' = chk /\ reply' # reply) =>
            /\ msgs' = msgs
            /\ reply'.cmd = "check" /\ reply'.out = "NoMessages"
            /\ reply'.removed = 0
      ]_vars

\* notifications were stored, every one of them was cleared, and a check after the
\* last clear found nothing
C15_Witness ==
    /\ nextMsgId > 1
    /\ msgs = {}
    /\ mw.pending = {}
    /\ reply.cmd = "check" /\ reply.out = "NoMessages"

\* C16: the middleware calls next only when no write of the fan-out is outstanding:
\* at that step the store holds one notification of this message for every
\* subscription the fan-out served, and a finished dispatch has no write pending
C16_WritesBeforeNext ==
    /\ [](mw.pc = "done" => mw.pending = {})
    /\ [][mw'.nexts > mw.nexts =>
            /\ mw.pending = {}
            /\ Cardinality(EventRows) = Cardinality(mw.issued)
            /\ \A sub \in mw.subscriptions : sub.id \in mw.issued =>
                    \E m \in EventRows : m.subscriber = sub.uid /\ m.kind = sub.kind
       ]_vars

\* next was called for a guild message after both notifications of its fan-out were
\* stored
C16_Witness ==
    /\ mw.pc = "done" /\ mw.nexts = 1
    /\ Cardinality(mw.issued) = 2
    /\ Cardinality(EventRows) = 2

\* C17: the bulk action of a check leaves every row outside the id set of its own read
\* as it is, a row created since that read included, and a later check of the same
\* user returns as unread every unread row it reads that the previous check did not list
C17_WriteByIdsRead ==
    [][/\ Completes => \A m \in msgs : m.id \notin CheckIds => m \in msgs'
       /\ (Completes /\ reply.cmd = "check" /\ reply.out = "ok") =>
            \A m \in chk.messages :
                (/\ ~m.hasRead
                 /\ m.id \notin Ids(reply.shown)
                 /\ \E r \in reply.shown : r.subscriber = m.subscriber) =>
                    /\ reply'.out = "ok"
                    /\ m \in reply'.shown
      ]_vars

\* C18: the rule lookups of a dispatch see the registry as it is when they run, after
\* the member enumeration and the subscription fetch: a fetched subscription whose
\* kind is not registered by then is not served, every notification stored is for a
\* served subscription, and no step of the dispatch changes the registry
C18_LookupsSeeDisposal ==
    [][/\ (mw.pc = "fanout" /\ mw'.pc = "writes") =>
            \A sub \in mw.subscriptions : ~isKind(sub.kind) => sub.id \notin mw'.issued
       /\ \A m \in msgs' \ msgs :
            \E sub \in mw.subscriptions :
                sub.id \in mw.issued /\ sub.uid = m.subscriber /\ sub.kind = m.kind
       /\ mw' # mw => (rules' = rules /\ handles' = handles)
      ]_vars

\* a dispatch has finished without a notification for a fetched subscription that
\* passes its filter, because the kind was disposed before the lookups ran
C18_Witness ==
    /\ mw.pc = "done"
    /\ \E sub \in mw.subscriptions :
        /\ Filter(sub.kind, mw.content, sub.config, [uid |-> sub.uid])
        /\ ~isKind(sub.kind)
        /\ \E h \in 1..Len(handles) : handles[h].kind = sub.kind /\ handles[h].disposed
        /\ sub.id \notin mw.issued
        /\ ~\E m \in EventRows : m.kind = sub.kind

\* C19: a check that ends in an error leaves the notification store as it was
C19_FailedCheckLeavesStore ==
    [][(Completes /\ reply'.out # "ok") => msgs' = msgs]_vars

\* C20: when the middleware has returned from a message, with or without guild scope
\* and with writing on or off, it has called next exactly once for it
C20_NextCalledOnce ==
    mw.pc \in {"returned", "done"} => mw.nexts = 1
====
